---- MODULE Spec2Model ----
(***************************************************************************)
(* Model of EBase (src/src/index.ts, lines 690-1233): the transaction      *)
(* wrapper (transactions / transactionSQLs), the statement builders, and   *)
(* the execution layer built on query().                                   *)
(***************************************************************************)
EXTENDS Integers, Sequences, FiniteSets, TLC

(***************************************************************************)
(* Bounds                                                                  *)
(***************************************************************************)
\* number of concurrent transaction invocations on one model instance
NumProcs == 2
\* statements one unit of work issues at most (length of sqls, or the
\* number of statements a callback issues)
MaxStmts == 2

Procs == 1..NumProcs
\* dedicated connections handed out by getConnectionAsync: a fresh one per
\* acquisition; NoConn is "no connection acquired"
NoConn == 0
ConnIds == 1..NumProcs

(***************************************************************************)
(* Values                                                                  *)
(***************************************************************************)
\* `sqls` that is null / undefined: an argument that is not present
Absent == [present |-> FALSE, list |-> <<>>]
Given(l) == [present |-> TRUE, list |-> l]
\* no error caught
NoErr == "none"

\* the statement lists transactionSQLs is invoked with: absent, empty, or
\* the texts 1..n in list order
SqlLists == {Absent} \cup {Given([i \in 1..n |-> i]) : n \in 0..MaxStmts}
\* names transactions is invoked with
Names == {"", "tx"}

VARIABLES
  kind,      \* kind[p]: which entry point invocation p runs
  name,      \* name[p]: the `name` argument of transactions
  sqls,      \* sqls[p]: the `sqls` argument of transactionSQLs
  pc,        \* pc[p]: the await the invocation is suspended at
  conn,      \* conn[p]: the dedicated connection p acquired (NoConn: none)
  err,       \* err[p]: the error caught by the catch block
  threw,     \* threw[p]: the callback itself threw
  issued,    \* issued[p]: statements the unit of work has issued
  outcome,   \* outcome[p]: how the returned promise settled
  acquires,  \* acquires[p]: getConnectionAsync calls made by p
  log,       \* log[c]: calls observed on dedicated connection c, in order
  binding,   \* the Table Binding: its options, this.order and this.asc
  call,      \* the operation of the execution layer called, with arguments
  conds,     \* the caller's Condition Map object, as the call leaves it
  objs,      \* the caller's payload objects, as the call leaves them
  opc,       \* "idle", "waiting" for queries in flight, or "done"
  flight,    \* the queries of the call: statement, state and result
  sent,      \* the statements passed to queryAsync, with their connection
  reply      \* how the promise of the call settled

txVars == <<kind, name, sqls, pc, conn, err, threw, issued, outcome,
            acquires, log>>
opsVars == <<binding, call, conds, objs, opc, flight, sent, reply>>

vars == <<txVars, opsVars>>

Pending == [st |-> "pending", v |-> "none"]
Resolved(v) == [st |-> "resolved", v |-> v]
Rejected(e) == [st |-> "rejected", v |-> e]

\* one call on a connection: op, the invocation that made it, the list
\* position of the statement (0 for non-statements) and how it settled
Ev(op, p, n, st) == [op |-> op, by |-> p, n |-> n, st |-> st]

\* the last call of l settles with st
Settle(l, st) == [l EXCEPT ![Len(l)].st = st]

(***************************************************************************)
(* Code of the two entry points                                            *)
(***************************************************************************)
\* the subclass hook: rethrows the error it is given
ErrorHandler(e) == e

\* `if (!name)`
NameInvalid(nm) == nm = ""

\* mutant: the empty list is let through
SqlsInvalidMutant(s) == ~s.present

\* `if (!sqls || sqls.length < 1)`
SqlsInvalid(s) == ~s.present \/ Len(s.list) < 1

\* mutant: a rejected statement is swallowed and the loop goes on
LoopNextMutant(i, n, ok) ==
  IF i < n THEN "stmt" ELSE IF ok THEN "commit" ELSE "catch"

\* `for (const sql of sqls) { await connection.queryAsync(sql); }` inside
\* try: after statement i of n settled (i = 0: before the first one), what
\* the invocation does next
LoopNext(i, n, ok) ==
  IF ~ok THEN "catch"
  ELSE IF i < n THEN "stmt" ELSE "commit"

\* `await func(connection)`: the callback is caller code; after each of its
\* own awaits it issues another statement on the connection it was given,
\* returns, or throws. A rejected statement propagates out of it.
FuncNext(i, ok) ==
  IF ~ok THEN {"catch"}
  ELSE {"commit", "throw"} \cup (IF i < MaxStmts THEN {"stmt"} ELSE {})

\* what the invocation may do after statement i settled
Steps(p, ok) ==
  IF kind[p] = "transactionSQLs"
  THEN {LoopNext(issued[p], Len(sqls[p].list), ok)}
  ELSE FuncNext(issued[p], ok)

\* the call the catch block makes on the connection
CatchCall == "ROLLBACK"

\* mutant: the connection is not released
FinallyMutant(l, p) == l

\* the finally block: release is called on the connection
Finally(l, p) == Append(l, Ev("RELEASE", p, 0, "ok"))

(***************************************************************************)
(* Values of the execution layer                                           *)
(*                                                                         *)
(* A JavaScript value is a record [t, v]: its type and its content as a    *)
(* sequence of numbers. A key is the sequence of its characters. A mapping *)
(* (Condition Map, payload) is the sequence of its entries [k, v] in       *)
(* insertion order, with unique keys.                                      *)
(***************************************************************************)
Undefined == [t |-> "undefined", v |-> <<>>]
Null == [t |-> "null", v |-> <<>>]
Num(n) == [t |-> "number", v |-> <<n>>]
Str(n) == [t |-> "string", v |-> <<n>>]
Arr(s) == [t |-> "array", v |-> s]
Bool(b) == [t |-> "boolean", v |-> <<IF b THEN 1 ELSE 0>>]
\* the content of a number, string or boolean value; -1 for undefined
Code(x) == IF x.v = <<>> THEN -1 ELSE x.v[1]
\* the options record {limit, offset, order, asc}: limit and offset are
\* numbers, order is a string and asc a boolean, each possibly undefined
Options(o) ==
  [t |-> "object", v |-> <<Code(o.limit), Code(o.offset), Code(o.order), Code(o.asc)>>]
\* the execution result {affectedRows: n} of a write
WriteResult(n) == [t |-> "result", v |-> <<n>>]
\* the rows a read resolves to (each row by its number in the table)
Rows(s) == [t |-> "rows", v |-> s]
\* the rows [{c: n}] a COUNT(*) AS c resolves to
CountRows(n) == [t |-> "countrows", v |-> <<n>>]
\* {count, list}: the count, then the content of the list
PageResult(count, list) == [t |-> "page of " \o list.t, v |-> <<Code(count)>> \o list.v]
\* rows[0] of a read and of a COUNT(*) AS c
Row(id) == [t |-> "row", v |-> <<id>>]
CountRow(n) == [t |-> "countrow", v |-> <<n>>]
\* the character with code n, and the text of a string value's content
Chr(n) == IF n = 1 THEN "a" ELSE IF n = 2 THEN "b" ELSE "?"
Text(s) == [i \in 1..Len(s) |-> Chr(s[i])]
\* "%" + value + "%"
Wildcard(x) == [t |-> "%" \o x.t \o "%", v |-> x.v]

\* JavaScript truthiness: undefined, null, 0, false and "" are falsy; every
\* object (an empty array included) is truthy
Falsy(x) ==
  \/ x.t \in {"undefined", "null"}
  \/ x.t \in {"number", "boolean"} /\ x.v = <<0>>
  \/ x.t = "string" /\ x.v = <<>>

\* a default parameter value applies when the argument is undefined
Default(x, d) == IF x = Undefined THEN d ELSE x

Entry(k, v) == [k |-> k, v |-> v]
\* Object.keys(object)
ObjectKeys(object) == [i \in 1..Len(object) |-> object[i].k]
\* object[key]
Get(object, key) ==
  IF \E i \in 1..Len(object) : object[i].k = key
  THEN object[CHOOSE i \in 1..Len(object) : object[i].k = key].v
  ELSE Undefined

\* k.indexOf(ch), counted from 0; -1 when ch does not occur
IndexOf(k, ch) ==
  IF \E i \in 1..Len(k) : k[i] = ch
  THEN (CHOOSE i \in 1..Len(k) : k[i] = ch /\ \A j \in 1..(i - 1) : k[j] # ch) - 1
  ELSE -1

\* k.replace(ch, ""): the first occurrence of ch is removed
Replace(k, ch) ==
  IF IndexOf(k, ch) = -1 THEN k
  ELSE [i \in 1..(Len(k) - 1) |-> IF i <= IndexOf(k, ch) THEN k[i] ELSE k[i + 1]]

(***************************************************************************)
(* Program constants                                                       *)
(***************************************************************************)
\* `Object.keys.length`: the number of parameters of the function Object.keys
ObjectKeysLength == 1
\* `limit = 999` of _list
ListLimit == 999
\* `limit = 10` of _search
SearchLimit == 10
\* `limit = 1` of _deleteByField and of _getByPrimary's _list
OneRow == 1
\* `num = 1` of _incrFields
IncrNum == 1
\* this.primaryKey: options.primaryKey || "id"
PrimaryKey == <<"i", "d">>

(***************************************************************************)
(* Condition Compiler                                                      *)
(***************************************************************************)
\* removeUndefined(object): the entries with an undefined value are deleted
\* from the object itself; `throws` is the test that guards the throw
RemoveUndefined(object) ==
  [object |-> SelectSeq(object, LAMBDA e : e.v # Undefined),
   throws |-> ObjectKeysLength = 0]

\* one sql.where(text, ...params) call: the clause text is `text` followed
\* by the operator `op` ("" when the text is used as it is)
Clause(text, op, params) == [text |-> text, op |-> op, params |-> params]

\* the rules of parseWhere with the embedded-`$` test before the `#` test
WhereOfMutant(k, condition) ==
  IF IndexOf(k, "$") = 0
  THEN IF condition.t = "array"
       THEN <<Clause(<<Chr(condition.v[1])>>, "",
                     [i \in 1..(Len(condition.v) - 1) |-> Num(condition.v[i + 1])])>>
       ELSE IF condition.t = "string"
            THEN <<Clause(Text(condition.v), "", <<>>)>>
            ELSE <<>>
  ELSE IF IndexOf(k, "$") # -1
  THEN <<Clause(Replace(k, "$"), "", <<condition>>)>>
  ELSE IF IndexOf(k, "#") # -1
  THEN <<Clause(Replace(k, "#"), "like ?", <<Wildcard(condition)>>)>>
  ELSE IF condition.t = "array"
  THEN <<Clause(k, "in ?", <<condition>>)>>
  ELSE <<Clause(k, "= ?", <<condition>>)>>

\* the where() calls parseWhere makes for key k with value `condition`
WhereOf(k, condition) ==
  IF IndexOf(k, "$") = 0
  THEN IF condition.t = "array"
       THEN <<Clause(<<Chr(condition.v[1])>>, "",
                     [i \in 1..(Len(condition.v) - 1) |-> Num(condition.v[i + 1])])>>
       ELSE IF condition.t = "string"
            THEN <<Clause(Text(condition.v), "", <<>>)>>
            ELSE <<>>
  ELSE IF IndexOf(k, "#") # -1
  THEN <<Clause(Replace(k, "#"), "like ?", <<Wildcard(condition)>>)>>
  ELSE IF IndexOf(k, "$") # -1
  THEN <<Clause(Replace(k, "$"), "", <<condition>>)>>
  ELSE IF condition.t = "array"
  THEN <<Clause(k, "in ?", <<condition>>)>>
  ELSE <<Clause(k, "= ?", <<condition>>)>>

\* parseWhere(sql, conditions): the clauses appended to sql, in key order
RECURSIVE ParseWhere(_)
ParseWhere(conditions) ==
  IF conditions = <<>> THEN <<>>
  ELSE WhereOf(conditions[1].k, conditions[1].v) \o ParseWhere(Tail(conditions))

(***************************************************************************)
(* Statement builders                                                      *)
(*                                                                         *)
(* A builder result is [err, stmt, conds, objs]: the error thrown ("" for  *)
(* none), the statement, and the caller's Condition Map and payload        *)
(* objects as the builder leaves them.                                     *)
(***************************************************************************)
Statement(verb) ==
  [kind |-> verb, fields |-> <<>>, where |-> <<>>, limit |-> Undefined,
   offset |-> Undefined, order |-> Undefined, asc |-> Undefined,
   rows |-> <<>>, set |-> <<>>, dup |-> <<>>]

Built(stmt, conditions, objects) ==
  [err |-> "", stmt |-> stmt, conds |-> conditions, objs |-> objects]
Thrown(e, conditions, objects) ==
  [err |-> e, stmt |-> Statement("none"), conds |-> conditions, objs |-> objects]

\* _count(conditions = {})
BuildCount(conditions) ==
  Built([Statement("select") EXCEPT !.fields = <<"COUNT(*) AS c">>,
                                    !.where = ParseWhere(conditions)],
        conditions, <<>>)

\* _list(conditions = {}, fields, limit = 999, offset = 0,
\*       order = this.order, asc = this.asc)
BuildList(this, conditions, limit, offset, order, asc) ==
  LET cleaned == RemoveUndefined(conditions)
      ord == Default(order, this.order)
      sql == [Statement("select") EXCEPT
                !.offset = Default(offset, Num(0)),
                !.limit = Default(limit, Num(ListLimit)),
                !.where = ParseWhere(cleaned.object)]
  IN  IF cleaned.throws THEN Thrown("Object is empty", cleaned.object, <<>>)
      ELSE Built(IF Falsy(ord) THEN sql
                 ELSE [sql EXCEPT !.order = ord, !.asc = Default(asc, this.asc)],
                 cleaned.object, <<>>)

\* _getByPrimary(primary, fields)
BuildGetByPrimary(this, primary) ==
  IF primary = Undefined THEN Thrown("primary", <<>>, <<>>)
  ELSE [BuildList(this, <<Entry(PrimaryKey, primary)>>, Num(OneRow),
                  Undefined, Undefined, Undefined) EXCEPT !.conds = <<>>]

\* _deleteByField(conditions, limit = 1)
BuildDeleteByField(conditions, limit) ==
  Built([Statement("delete") EXCEPT
           !.limit = Default(limit, Num(OneRow)),
           !.where = [i \in 1..Len(conditions) |->
                        Clause(conditions[i].k,
                               IF conditions[i].v.t = "array" THEN "in ?" ELSE "= ?",
                               <<conditions[i].v>>)]],
        conditions, <<>>)

\* _deleteByPrimary without its test of primary
BuildDeleteByPrimaryMutant(primary) ==
  [BuildDeleteByField(<<Entry(PrimaryKey, primary)>>, Num(OneRow))
     EXCEPT !.conds = <<>>]

\* _deleteByPrimary(primary)
BuildDeleteByPrimary(primary) ==
  IF primary = Undefined THEN Thrown("primary", <<>>, <<>>)
  ELSE [BuildDeleteByField(<<Entry(PrimaryKey, primary)>>, Num(OneRow))
          EXCEPT !.conds = <<>>]

\* _insert(object = {})
BuildInsert(object) ==
  LET cleaned == RemoveUndefined(object)
  IN  IF cleaned.throws THEN Thrown("Object is empty", <<>>, <<cleaned.object>>)
      ELSE Built([Statement("insert") EXCEPT !.rows = <<cleaned.object>>],
                 <<>>, <<cleaned.object>>)

\* _batchInsert(array): array.forEach(removeUndefined)
BuildBatchInsert(array) ==
  LET cleaned == [i \in 1..Len(array) |-> RemoveUndefined(array[i])]
      objects == [i \in 1..Len(array) |-> cleaned[i].object]
  IN  IF \E i \in 1..Len(array) : cleaned[i].throws
      THEN Thrown("Object is empty", <<>>, objects)
      ELSE Built([Statement("insert") EXCEPT !.rows = objects], <<>>, objects)

\* sql.set(...) for one payload entry in raw mode
RawSet(e) ==
  IF IndexOf(e.k, "$") = 0 THEN Clause(Text(e.v.v), "", <<>>)
  ELSE Clause(e.k, "= ?", <<e.v>>)

\* _updateByField(conditions, objects, raw)
BuildUpdateByField(conditions, objects, raw) ==
  IF Len(ObjectKeys(conditions)) < 1 THEN Thrown("key", conditions, <<objects>>)
  ELSE
    LET cleaned == RemoveUndefined(objects)
        sql == [Statement("update") EXCEPT
                  !.where = [i \in 1..Len(conditions) |->
                               Clause(conditions[i].k, "= ?", <<conditions[i].v>>)]]
    IN  IF cleaned.throws THEN Thrown("Object is empty", conditions, <<cleaned.object>>)
        ELSE IF ~raw
        THEN Built([sql EXCEPT !.rows = <<cleaned.object>>], conditions, <<cleaned.object>>)
        ELSE Built([sql EXCEPT !.set = [i \in 1..Len(cleaned.object) |->
                                          RawSet(cleaned.object[i])]],
                   conditions, <<cleaned.object>>)

\* the onDupUpdate call _createOrUpdate makes for key k
DupOf(objects, k) ==
  IF Get(objects, k).t = "array"
  THEN <<Entry(<<Chr(Get(objects, k).v[1])>>, Num(Get(objects, k).v[2]))>>
  ELSE IF Get(objects, k) # Undefined
       THEN <<Entry(k, Get(objects, k))>>
       ELSE <<>>

RECURSIVE DupUpdates(_, _)
DupUpdates(objects, update) ==
  IF update = <<>> THEN <<>>
  ELSE DupOf(objects, update[1]) \o DupUpdates(objects, Tail(update))

\* _createOrUpdate(objects, update = Object.keys(objects))
BuildCreateOrUpdate(objects, update) ==
  LET cleaned == RemoveUndefined(objects)
  IN  IF cleaned.throws THEN Thrown("Object is empty", <<>>, <<cleaned.object>>)
      ELSE Built([Statement("insert") EXCEPT
                    !.rows = <<cleaned.object>>,
                    !.dup = DupUpdates(cleaned.object, update)],
                 <<>>, <<cleaned.object>>)

\* _incrFields(primary, fields, num = 1): `f = f + num` for each field
BuildIncrFields(primary, fields, num) ==
  IF primary = Undefined THEN Thrown("primary", <<>>, <<>>)
  ELSE Built([Statement("update") EXCEPT
                !.where = <<Clause(PrimaryKey, "= ?", <<primary>>)>>,
                !.set = [i \in 1..Len(fields) |->
                           Clause(fields[i] \o <<"=">> \o fields[i] \o <<"+">>, "",
                                  <<Default(num, Num(IncrNum))>>)]],
             <<>>, <<>>)

\* squel.expr() with one .or(`${k} like ?`) per searched column: the columns
\* of the OR, in order
RECURSIVE OrColumns(_)
OrColumns(search) ==
  IF search = <<>> THEN <<>>
  ELSE search[1] \o (IF Len(search) > 1 THEN <<"|">> ELSE <<>>) \o OrColumns(Tail(search))

\* _search(keyword, search, fields, limit = 10, offset = 0,
\*         order = this.order, asc = true)
BuildSearch(this, keyword, search, limit, offset, order, asc) ==
  IF Falsy(keyword) \/ Len(search) < 1 THEN Thrown("keyword", <<>>, <<>>)
  ELSE
    LET ord == Default(order, this.order)
        sql == [Statement("select") EXCEPT
                  !.offset = Default(offset, Num(0)),
                  !.limit = Default(limit, Num(SearchLimit)),
                  !.where = <<Clause(OrColumns(search), "like ?",
                                     [i \in 1..Len(search) |-> Wildcard(keyword)])>>]
    IN  Built(IF Falsy(ord) THEN sql
              ELSE [sql EXCEPT !.order = ord, !.asc = Default(asc, Bool(TRUE))],
              <<>>, <<>>)

(***************************************************************************)
(* The connection: a database holding one small table                      *)
(***************************************************************************)
\* this.connect, the binding's default shared connection
DefaultConn == 0
\* a dedicated connection, as handed to the ...Raw operations
RawConn == 1

\* the rows of the table, in ascending order of every column
Table == <<[id |-> 1, a |-> 1, b |-> 1],
           [id |-> 2, a |-> 1, b |-> 2],
           [id |-> 3, a |-> 2, b |-> 2]>>

\* the value of column `text` in row r; -1 when the table has no such column
Column(r, text) ==
  IF text = <<"a">> THEN r.a
  ELSE IF text = <<"b">> THEN r.b
  ELSE IF text = PrimaryKey THEN r.id
  ELSE -1

\* row r satisfies the clause; an undefined parameter is sent as NULL, which
\* no comparison matches; the predicate of a raw clause is not interpreted
Matches(r, cl) ==
  CASE cl.op = "= ?" ->
         cl.params[1].t = "number" /\ Column(r, cl.text) = cl.params[1].v[1]
    [] cl.op = "in ?" ->
         \E i \in 1..Len(cl.params[1].v) : Column(r, cl.text) = cl.params[1].v[i]
    [] cl.op = "like ?" ->
         cl.params[1].t = "%number%" /\ Column(r, cl.text) = cl.params[1].v[1]
    [] OTHER -> TRUE

\* the numbers of the rows that satisfy every clause, in table order
Selected(where) ==
  SelectSeq([i \in 1..Len(Table) |-> i],
            LAMBDA i : \A j \in 1..Len(where) : Matches(Table[i], where[j]))

Reverse(s) == [i \in 1..Len(s) |-> s[Len(s) + 1 - i]]
Min(x, y) == IF x < y THEN x ELSE y

\* a statement the database cannot execute: a LIMIT or OFFSET that is not
\* a number, an INSERT or UPDATE that sets no column, or an INSERT whose
\* rows name different columns
Malformed(stmt) ==
  \/ stmt.limit.t \notin {"number", "undefined"}
  \/ stmt.offset.t \notin {"number", "undefined"}
  \/ stmt.kind \in {"insert", "update"}
       /\ stmt.set = <<>> /\ \A i \in 1..Len(stmt.rows) : stmt.rows[i] = <<>>
  \/ \E i \in 1..Len(stmt.rows) : ObjectKeys(stmt.rows[i]) # ObjectKeys(stmt.rows[1])

\* the rows a SELECT returns: ORDER BY, then OFFSET and LIMIT
Fetch(stmt) ==
  LET hit == Selected(stmt.where)
      sorted == IF stmt.order # Undefined /\ stmt.asc = Bool(FALSE)
                THEN Reverse(hit) ELSE hit
      from == IF stmt.offset = Undefined THEN 0 ELSE stmt.offset.v[1]
      upto == IF stmt.limit = Undefined THEN Len(sorted)
              ELSE Min(Len(sorted), from + stmt.limit.v[1])
  IN  SubSeq(sorted, from + 1, upto)

\* what queryAsync resolves to for a statement the database executes
Execute(stmt) ==
  CASE stmt.kind = "select" /\ stmt.fields = <<"COUNT(*) AS c">> ->
         CountRows(Len(Selected(stmt.where)))
    [] stmt.kind = "select" -> Rows(Fetch(stmt))
    [] stmt.kind = "insert" -> WriteResult(Len(stmt.rows))
    [] stmt.kind = "delete" ->
         WriteResult(IF stmt.limit = Undefined THEN Len(Selected(stmt.where))
                     ELSE Min(Len(Selected(stmt.where)), stmt.limit.v[1]))
    [] OTHER -> WriteResult(Len(Selected(stmt.where)))

\* sql.toParam() in query(): the builder library is not part of the source;
\* it may refuse to render a statement the database could not execute
RenderOutcomes(stmt) == IF Malformed(stmt) THEN {"throw", "ok"} ELSE {"ok"}

(***************************************************************************)
(* Execution layer                                                         *)
(***************************************************************************)
\* x && y
And(x, y) == IF Falsy(x) THEN x ELSE y
\* res[0]
At0(res) ==
  IF res.t = "rows" /\ res.v # <<>> THEN Row(res.v[1])
  ELSE IF res.t = "countrows" THEN CountRow(res.v[1])
  ELSE Undefined
\* row.c
FieldC(row) == IF row.t = "countrow" THEN Num(row.v[1]) ELSE Undefined
\* res.affectedRows
AffectedRows(res) == IF res.t = "result" THEN Num(res.v[1]) ELSE Undefined

\* res => res && res[0] && res[0].c
ThenCount(res) == And(And(res, At0(res)), FieldC(At0(res)))
\* res => res && res[0]
ThenFirst(res) == And(res, At0(res))
\* res => res && res.affectedRows
ThenAffected(res) == And(res, AffectedRows(res))
\* ([list, count = 0]) => list && { count, list }
ThenPage(list, count) == And(list, PageResult(Default(count, Num(0)), list))

\* typeof x === "object"
TypeofObject(x) == x.t \in {"object", "null", "array"}
\* args[i - 1], undefined past the end
Nth(args, i) == IF i <= Len(args) THEN args[i] ELSE Undefined
\* x.limit, x.offset, x.order, x.asc of an argument
Prop(x, f) ==
  LET i == CASE f = "limit" -> 1 [] f = "offset" -> 2 [] f = "order" -> 3 [] f = "asc" -> 4
  IN  IF x.t # "object" \/ x.v[i] = -1 THEN Undefined
      ELSE CASE f = "order" -> Str(x.v[i])
             [] f = "asc" -> Bool(x.v[i] = 1)
             [] OTHER -> Num(x.v[i])

Paging(limit, offset, order, asc) ==
  [limit |-> limit, offset |-> offset, order |-> order, asc |-> asc]
Positional(args) == Paging(Nth(args, 1), Nth(args, 2), Nth(args, 3), Nth(args, 4))
FromRecord(x) ==
  Paging(Prop(x, "limit"), Prop(x, "offset"), Prop(x, "order"), Prop(x, "asc"))

\* listRaw: `if (args.length === 2 && typeof args[1] === "object")` reads
\* the paging from args[0], else the arguments are passed on positionally
ListPaging(args) ==
  IF Len(args) = 2 /\ TypeofObject(args[2]) THEN FromRecord(args[1])
  ELSE Positional(args)

\* search: `if (args.length === 1 && typeof args[0] === "object")`
SearchPaging(args) ==
  IF Len(args) = 1 /\ TypeofObject(args[1]) THEN FromRecord(args[1])
  ELSE Positional(args)

\* listRaw(connect, conditions, fields, ...args) up to query()
BuildListRaw(this, conditions, args) ==
  LET pg == ListPaging(args)
  IN  BuildList(this, conditions, pg.limit, pg.offset, pg.order, pg.asc)

\* the constructor: this.order = options.order; this.asc = options.asc || true
Constructor(options) ==
  [options |-> options,
   order |-> options.order,
   asc |-> IF Falsy(options.asc) THEN Bool(TRUE) ELSE options.asc]

(***************************************************************************)
(* Operations of the execution layer                                       *)
(***************************************************************************)
\* entries of Condition Maps and of payloads
MaxCond == 1
MaxFields == 1

CondKeys == << <<"a">>, <<"$", "x">>, <<"#", "a">>, <<"b", "$">>, <<"#", "b", "$">> >>
CondValues == {Undefined, Num(1), Arr(<<1, 2>>), Str(1)}
FieldKeys == << <<"a">>, <<"$", "x">> >>
FieldValues == {Undefined, Num(1), Arr(<<1, 2>>)}

\* the mapping that holds keys[i] |-> f[i] for the i in the domain of f
RECURSIVE ToMap(_, _, _)
ToMap(keys, f, i) ==
  IF i > Len(keys) THEN <<>>
  ELSE (IF i \in DOMAIN f THEN <<Entry(keys[i], f[i])>> ELSE <<>>)
         \o ToMap(keys, f, i + 1)

\* the mappings of at most max entries over keys and values
Maps(keys, values, max) ==
  {ToMap(keys, f, 1) :
     f \in UNION {[S -> values] :
                    S \in {S \in SUBSET (1..Len(keys)) : Cardinality(S) <= max}}}

CondMaps == Maps(CondKeys, CondValues, MaxCond)
Payloads == Maps(FieldKeys, FieldValues, MaxFields)
Primaries == {Undefined, Num(1)}

\* paging values a caller passes
Pagings ==
  {Paging(Undefined, Undefined, Undefined, Undefined),
   Paging(Num(1), Undefined, Undefined, Undefined),
   Paging(Num(2), Num(1), Undefined, Undefined),
   Paging(Num(2), Num(0), Str(1), Undefined),
   Paging(Num(2), Num(0), Str(1), Bool(FALSE)),
   Paging(Num(2), Num(1), Str(2), Bool(TRUE))}

\* the arguments of the positional convention: the values up to the last
\* one given
RECURSIVE Trim(_)
Trim(args) ==
  IF args # <<>> /\ args[Len(args)] = Undefined
  THEN Trim(SubSeq(args, 1, Len(args) - 1))
  ELSE args
AsPositional(pg) == Trim(<<pg.limit, pg.offset, pg.order, pg.asc>>)
\* the argument of the options-record convention
AsRecord(pg) == <<Options(pg)>>
PagingArgs == {AsPositional(pg) : pg \in Pagings} \cup {AsRecord(pg) : pg \in Pagings}

\* the options a Table Binding is constructed with
BindingOptions ==
  {[order |-> o, asc |-> a] : o \in {Undefined, Str(1)},
                              a \in {Undefined, Bool(TRUE), Bool(FALSE)}}

\* a call of an operation and its arguments: the connection, the Condition
\* Map, the payload objects, the primary value and the remaining arguments
\* (those not passed are undefined or empty)
Call(op, connect, conditions, objects, primary, raw, limit, args, update, keyword, search, num) ==
  [op |-> op, limit |-> limit, conditions |-> conditions, objects |-> objects,
   primary |-> primary, raw |-> raw, update |-> update, num |-> num,
   search |-> search, keyword |-> keyword, args |-> args, connect |-> connect]
NoCall ==
  Call("none", 0, <<>>, <<>>, Undefined, FALSE, Undefined, <<>>, Absent,
       Undefined, <<>>, Undefined)

\* the `...Raw` variant of an operation takes the connection first
IsRaw(op) ==
  op \in {"countRaw", "getByPrimaryRaw", "getOneByFieldRaw", "deleteByPrimaryRaw",
          "deleteByFieldRaw", "insertRaw", "updateByFieldRaw", "incrFieldsRaw",
          "listRaw"}

\* the operations that resolve to an affected-row count
AffectedOps ==
  {"deleteByPrimary", "deleteByPrimaryRaw", "deleteByField", "deleteByFieldRaw",
   "updateByField", "updateByFieldRaw", "updateByPrimary", "incrFields",
   "incrFieldsRaw"}

\* the connection the operation hands to query()
QueryConn(c) ==
  IF c.op = "deleteByPrimaryRaw" THEN DefaultConn
  ELSE IF IsRaw(c.op) THEN c.connect
  ELSE DefaultConn

\* how many `.then(res => res && res.affectedRows)` the result passes
Thens(op) ==
  CASE op = "updateByField" -> 2
    [] op = "updateByPrimary" -> 3
    [] op \in AffectedOps -> 1
    [] OTHER -> 0

\* the statement the operation builds (or the error it throws) from its
\* arguments, up to the call of query()
Build(this, c) ==
  CASE c.op \in {"count", "countRaw"} -> BuildCount(c.conditions)
    [] c.op \in {"getByPrimary", "getByPrimaryRaw"} -> BuildGetByPrimary(this, c.primary)
    [] c.op \in {"getOneByField", "getOneByFieldRaw"} ->
         BuildList(this, c.conditions, Num(OneRow), Undefined, Undefined, Undefined)
    [] c.op \in {"deleteByPrimary", "deleteByPrimaryRaw"} -> BuildDeleteByPrimary(c.primary)
    [] c.op \in {"deleteByField", "deleteByFieldRaw"} ->
         BuildDeleteByField(c.conditions, c.limit)
    [] c.op = "getByField" -> BuildListRaw(this, c.conditions, <<Num(ListLimit)>>)
    [] c.op \in {"insert", "insertRaw"} -> BuildInsert(c.objects[1])
    [] c.op = "batchInsert" -> BuildBatchInsert(c.objects)
    [] c.op \in {"updateByField", "updateByFieldRaw"} ->
         BuildUpdateByField(c.conditions, c.objects[1], c.raw)
    [] c.op = "updateByPrimary" ->
         IF c.primary = Undefined THEN Thrown("primary", <<>>, c.objects)
         ELSE [BuildUpdateByField(<<Entry(PrimaryKey, c.primary)>>, c.objects[1], c.raw)
                 EXCEPT !.conds = <<>>]
    [] c.op = "createOrUpdate" ->
         BuildCreateOrUpdate(c.objects[1],
                             IF c.update.present THEN c.update.list
                             ELSE ObjectKeys(c.objects[1]))
    [] c.op \in {"incrFields", "incrFieldsRaw"} ->
         BuildIncrFields(c.primary, c.search, c.num)
    [] c.op \in {"list", "listRaw"} -> BuildListRaw(this, c.conditions, c.args)
    [] c.op = "search" ->
         LET pg == SearchPaging(c.args)
         IN  BuildSearch(this, c.keyword, c.search, pg.limit, pg.offset, pg.order, pg.asc)

\* the value the operation resolves to when its query resolves to r
RECURSIVE Affected(_, _)
Affected(r, n) == IF n = 0 THEN r ELSE Affected(ThenAffected(r), n - 1)
Resolve(c, r) ==
  CASE c.op \in {"count", "countRaw"} -> ThenCount(r)
    [] c.op \in {"getByPrimary", "getByPrimaryRaw", "getOneByField",
                 "getOneByFieldRaw"} -> ThenFirst(r)
    [] OTHER -> Affected(r, Thens(c.op))

TxInit ==
  /\ kind = [p \in Procs |-> "none"]
  /\ name = [p \in Procs |-> ""]
  /\ sqls = [p \in Procs |-> Absent]
  /\ pc = [p \in Procs |-> "idle"]
  /\ conn = [p \in Procs |-> NoConn]
  /\ err = [p \in Procs |-> NoErr]
  /\ threw = [p \in Procs |-> FALSE]
  /\ issued = [p \in Procs |-> 0]
  /\ outcome = [p \in Procs |-> Pending]
  /\ acquires = [p \in Procs |-> 0]
  /\ log = [c \in ConnIds |-> <<>>]

\* the invocation settles
Finish(p, o) ==
  /\ pc' = [pc EXCEPT ![p] = "done"]
  /\ outcome' = [outcome EXCEPT ![p] = o]

\* the thunk returned by transactions(name, func) is invoked
InvokeTransactions(p) ==
  /\ pc[p] = "idle"
  /\ \E nm \in Names :
       /\ kind' = [kind EXCEPT ![p] = "transactions"]
       /\ name' = [name EXCEPT ![p] = nm]
       /\ IF NameInvalid(nm)
          THEN /\ Finish(p, Rejected("ErrName"))
               /\ UNCHANGED acquires
          ELSE /\ pc' = [pc EXCEPT ![p] = "acquire"]
               /\ acquires' = [acquires EXCEPT ![p] = @ + 1]
               /\ UNCHANGED outcome
  /\ UNCHANGED <<sqls, conn, err, threw, issued, log>>
  /\ UNCHANGED opsVars

\* the thunk returned by transactionSQLs(sqls) is invoked
InvokeTransactionSQLs(p) ==
  /\ pc[p] = "idle"
  /\ \E s \in SqlLists :
       /\ kind' = [kind EXCEPT ![p] = "transactionSQLs"]
       /\ sqls' = [sqls EXCEPT ![p] = s]
       /\ IF SqlsInvalid(s)
          THEN /\ Finish(p, Rejected("ErrSqls"))
               /\ UNCHANGED acquires
          ELSE /\ pc' = [pc EXCEPT ![p] = "acquire"]
               /\ acquires' = [acquires EXCEPT ![p] = @ + 1]
               /\ UNCHANGED outcome
  /\ UNCHANGED <<name, conn, err, threw, issued, log>>
  /\ UNCHANGED opsVars

\* a pool that hands the same connection to every invocation
FreshMutant(p) == 1

\* the connection getConnectionAsync resolves to for invocation p: one that
\* no other invocation holds, named after p
Fresh(p) == p

\* getConnectionAsync settles; on success BEGIN is issued on the connection
AcquireSettle(p) ==
  /\ pc[p] = "acquire"
  /\ \/ /\ Finish(p, Rejected("ErrAcquire"))
        /\ UNCHANGED <<conn, log>>
     \/ /\ conn' = [conn EXCEPT ![p] = Fresh(p)]
        /\ log' = [log EXCEPT ![Fresh(p)] = Append(@, Ev("BEGIN", p, 0, "pending"))]
        /\ pc' = [pc EXCEPT ![p] = "begin"]
        /\ UNCHANGED outcome
  /\ UNCHANGED <<kind, name, sqls, err, threw, issued, acquires>>
  /\ UNCHANGED opsVars

\* the body of try / catch from the point where the last call settled (l is
\* the connection's log with that call settled) up to the next await
Proceed(p, l, d, e) ==
  LET c == conn[p] IN
  CASE d = "stmt" ->
         /\ log' = [log EXCEPT ![c] = Append(l, Ev("STMT", p, issued[p] + 1, "pending"))]
         /\ issued' = [issued EXCEPT ![p] = @ + 1]
         /\ pc' = [pc EXCEPT ![p] = "stmt"]
         /\ UNCHANGED <<err, threw, outcome>>
    [] d = "commit" ->
         /\ log' = [log EXCEPT ![c] = Append(l, Ev("COMMIT", p, 0, "pending"))]
         /\ pc' = [pc EXCEPT ![p] = "commit"]
         /\ UNCHANGED <<err, threw, issued, outcome>>
    [] d \in {"catch", "throw"} ->
         /\ log' = [log EXCEPT ![c] = Append(l, Ev(CatchCall, p, 0, "pending"))]
         /\ err' = [err EXCEPT ![p] = e]
         /\ threw' = [threw EXCEPT ![p] = (d = "throw")]
         /\ pc' = [pc EXCEPT ![p] = "rollback"]
         /\ UNCHANGED <<issued, outcome>>

\* the error the catch block receives for step d
Caught(d, e) == IF d = "throw" THEN "ErrFunc" ELSE e

\* BEGIN settles: it is awaited before the try block is entered
BeginSettle(p) ==
  /\ pc[p] = "begin"
  /\ \/ /\ log' = [log EXCEPT ![conn[p]] = Settle(@, "fail")]
        /\ Finish(p, Rejected("ErrBegin"))
        /\ UNCHANGED <<err, threw, issued>>
     \/ \E d \in Steps(p, TRUE) :
          Proceed(p, Settle(log[conn[p]], "ok"), d, Caught(d, NoErr))
  /\ UNCHANGED <<kind, name, sqls, conn, acquires>>
  /\ UNCHANGED opsVars

\* a statement of the unit of work settles
StmtSettle(p) ==
  /\ pc[p] = "stmt"
  /\ \E ok \in BOOLEAN :
       \E d \in Steps(p, ok) :
          Proceed(p, Settle(log[conn[p]], IF ok THEN "ok" ELSE "fail"), d,
                  Caught(d, "ErrStmt"))
  /\ UNCHANGED <<kind, name, sqls, conn, acquires>>
  /\ UNCHANGED opsVars

\* COMMIT settles: on success the invocation returns through finally
CommitSettle(p) ==
  /\ pc[p] = "commit"
  /\ \/ /\ log' = [log EXCEPT ![conn[p]] = Finally(Settle(@, "ok"), p)]
        /\ Finish(p, Resolved("result"))
        /\ UNCHANGED <<err, threw, issued>>
     \/ Proceed(p, Settle(log[conn[p]], "fail"), "catch", "ErrCommit")
  /\ UNCHANGED <<kind, name, sqls, conn, acquires>>
  /\ UNCHANGED opsVars

\* ROLLBACK settles inside catch: the hook rethrows the caught error, or
\* the rejection of ROLLBACK leaves the catch block; finally runs either way
RollbackSettle(p) ==
  /\ pc[p] = "rollback"
  /\ \E ok \in BOOLEAN :
       /\ log' = [log EXCEPT ![conn[p]] =
                    Finally(Settle(@, IF ok THEN "ok" ELSE "fail"), p)]
       /\ Finish(p, Rejected(IF ok THEN ErrorHandler(err[p]) ELSE "ErrRollback"))
  /\ UNCHANGED <<kind, name, sqls, conn, err, threw, issued, acquires>>
  /\ UNCHANGED opsVars

(***************************************************************************)
(* Calls of the execution layer                                            *)
(***************************************************************************)
OpPending == [st |-> "pending", v |-> Undefined]
OpResolved(v) == [st |-> "resolved", v |-> v]
OpRejected(e) == [st |-> "rejected", v |-> [t |-> e, v |-> <<>>]]

\* a query handed to queryAsync
Query(stmt) == [stmt |-> stmt, st |-> "pending", v |-> Undefined]
Sent(c, stmt) == [conn |-> QueryConn(c), stmt |-> stmt]

OpsIdle ==
  /\ call = NoCall
  /\ conds = <<>>
  /\ objs = <<>>
  /\ opc = "idle"
  /\ flight = <<>>
  /\ sent = <<>>
  /\ reply = OpPending

\* the call throws before anything is sent
Raise(e) ==
  /\ reply' = OpRejected(e)
  /\ opc' = "done"
  /\ UNCHANGED <<flight, sent>>

\* an operation other than page is called while none is under way: the
\* statement is built and handed to query(), which renders it and passes it
\* to queryAsync
Start(c) ==
  /\ call' = c
  /\ LET b == Build(binding, c)
     IN  /\ conds' = b.conds
         /\ objs' = b.objs
         /\ IF b.err # "" THEN Raise(b.err)
            ELSE \E r \in RenderOutcomes(b.stmt) :
                   IF r = "throw" THEN Raise("render")
                   ELSE /\ sent' = Append(sent, Sent(c, b.stmt))
                        /\ flight' = <<Query(b.stmt)>>
                        /\ opc' = "waiting"
                        /\ reply' = OpPending
  /\ UNCHANGED <<binding, txVars>>

\* the connection argument: a ...Raw operation is given a dedicated
\* connection, the others use this.connect
Connect(op) == IF IsRaw(op) THEN RawConn ELSE DefaultConn

\* the call of op with Condition Map m, payload objects o, primary pr and
\* the other arguments as given
Invoke(op, m, o, pr, raw, limit, args, update, keyword, search, num) ==
  Call(op, Connect(op), m, o, pr, raw, limit, args, update, keyword, search,
       num)

\* a call that passes only a Condition Map, payload objects or a primary
Simple(op, m, o, pr) ==
  Invoke(op, m, o, pr, FALSE, Undefined, <<>>, Absent, Undefined, <<>>, Undefined)

CallCount ==
  /\ opc = "idle"
  /\ \E op \in {"count", "countRaw"}, m \in CondMaps :
       Start(Simple(op, m, <<>>, Undefined))

CallGetByPrimary ==
  /\ opc = "idle"
  /\ \E op \in {"getByPrimary", "getByPrimaryRaw"}, pr \in Primaries :
       Start(Simple(op, <<>>, <<>>, pr))

CallGetOneByField ==
  /\ opc = "idle"
  /\ \E op \in {"getOneByField", "getOneByFieldRaw"}, m \in CondMaps :
       Start(Simple(op, m, <<>>, Undefined))

CallGetByField ==
  /\ opc = "idle"
  /\ \E m \in CondMaps : Start(Simple("getByField", m, <<>>, Undefined))

CallDeleteByPrimary ==
  /\ opc = "idle"
  /\ \E op \in {"deleteByPrimary", "deleteByPrimaryRaw"}, pr \in Primaries :
       Start(Simple(op, <<>>, <<>>, pr))

CallDeleteByField ==
  /\ opc = "idle"
  /\ \E op \in {"deleteByField", "deleteByFieldRaw"}, m \in CondMaps,
        lim \in {Undefined, Num(2)} :
       Start(Invoke(op, m, <<>>, Undefined, FALSE, lim, <<>>, Absent, Undefined,
                    <<>>, Undefined))

CallInsert ==
  /\ opc = "idle"
  /\ \E op \in {"insert", "insertRaw"}, o \in Payloads :
       Start(Simple(op, <<>>, <<o>>, Undefined))

CallBatchInsert ==
  /\ opc = "idle"
  /\ \E o1 \in Payloads, o2 \in Payloads, n \in 1..2 :
       Start(Simple("batchInsert", <<>>, SubSeq(<<o1, o2>>, 1, n), Undefined))

CallUpdateByField ==
  /\ opc = "idle"
  /\ \E op \in {"updateByField", "updateByFieldRaw"}, m \in CondMaps,
        o \in Payloads, raw \in BOOLEAN :
       Start(Invoke(op, m, <<o>>, Undefined, raw, Undefined, <<>>, Absent,
                    Undefined, <<>>, Undefined))

CallUpdateByPrimary ==
  /\ opc = "idle"
  /\ \E pr \in Primaries, o \in Payloads, raw \in BOOLEAN :
       Start(Invoke("updateByPrimary", <<>>, <<o>>, pr, raw, Undefined, <<>>,
                    Absent, Undefined, <<>>, Undefined))

CallCreateOrUpdate ==
  /\ opc = "idle"
  /\ \E o \in Payloads, u \in {Absent, Given(<< <<"a">> >>)} :
       Start(Invoke("createOrUpdate", <<>>, <<o>>, Undefined, FALSE, Undefined,
                    <<>>, u, Undefined, <<>>, Undefined))

CallIncrFields ==
  /\ opc = "idle"
  /\ \E op \in {"incrFields", "incrFieldsRaw"}, pr \in Primaries,
        n \in {Undefined, Num(2)} :
       Start(Invoke(op, <<>>, <<>>, pr, FALSE, Undefined, <<>>, Absent, Undefined,
                    << <<"a">> >>, n))

CallList ==
  /\ opc = "idle"
  /\ \E op \in {"list", "listRaw"}, m \in CondMaps, args \in PagingArgs :
       Start(Invoke(op, m, <<>>, Undefined, FALSE, Undefined, args, Absent,
                    Undefined, <<>>, Undefined))

CallSearch ==
  /\ opc = "idle"
  /\ \E kw \in {Str(1), [t |-> "string", v |-> <<>>]},
        cols \in {<<>>, << <<"a">> >>, << <<"a">>, <<"b">> >>},
        args \in PagingArgs :
       Start(Invoke("search", <<>>, <<>>, Undefined, FALSE, Undefined, args,
                    Absent, kw, cols, Undefined))

\* page(conditions, fields, ...args): this.list(...) builds and sends its
\* statement, then this.count(conditions) builds and sends its own from
\* the same Condition Map object
CallPage ==
  /\ opc = "idle"
  /\ \E m \in CondMaps, args \in PagingArgs :
       LET c == Invoke("page", m, <<>>, Undefined, FALSE, Undefined, args,
                       Absent, Undefined, <<>>, Undefined)
           l == BuildListRaw(binding, m, args)
           n == BuildCount(l.conds)
       IN  /\ call' = c
           /\ objs' = <<>>
           /\ IF l.err # "" THEN conds' = l.conds /\ Raise(l.err)
              ELSE \E r \in RenderOutcomes(l.stmt) :
                     IF r = "throw" THEN conds' = l.conds /\ Raise("render")
                     ELSE /\ conds' = n.conds
                          /\ sent' = sent \o <<Sent(c, l.stmt), Sent(c, n.stmt)>>
                          /\ flight' = <<Query(l.stmt), Query(n.stmt)>>
                          /\ opc' = "waiting"
                          /\ reply' = OpPending
  /\ UNCHANGED <<binding, txVars>>

\* every query of the call has resolved: the value the call resolves to
Settled(c, f) ==
  IF c.op = "page" THEN ThenPage(f[1].v, ThenCount(f[2].v))
  ELSE Resolve(c, f[1].v)

\* queryAsync settles for query i of the call: a rejection goes through
\* `.catch(this.errorHandler)` and rejects the call
QuerySettle(i) ==
  /\ opc = "waiting"
  /\ i \in DOMAIN flight
  /\ flight[i].st = "pending"
  /\ \E ok \in (IF Malformed(flight[i].stmt) THEN {FALSE} ELSE BOOLEAN) :
       LET f == [flight EXCEPT ![i].st = IF ok THEN "ok" ELSE "fail",
                               ![i].v = IF ok THEN Execute(flight[i].stmt)
                                        ELSE Undefined]
       IN  /\ flight' = f
           /\ IF ~ok
              THEN reply' = OpRejected(ErrorHandler("ErrDb")) /\ opc' = "done"
              ELSE IF \A j \in DOMAIN f : f[j].st = "ok"
              THEN reply' = OpResolved(Settled(call, f)) /\ opc' = "done"
              ELSE UNCHANGED <<reply, opc>>
  /\ UNCHANGED <<binding, call, conds, objs, sent, txVars>>

OpsNext ==
  \/ CallCount
  \/ CallGetByPrimary
  \/ CallGetOneByField
  \/ CallGetByField
  \/ CallDeleteByPrimary
  \/ CallDeleteByField
  \/ CallInsert
  \/ CallBatchInsert
  \/ CallUpdateByField
  \/ CallUpdateByPrimary
  \/ CallCreateOrUpdate
  \/ CallIncrFields
  \/ CallList
  \/ CallSearch
  \/ CallPage
  \/ \E i \in 1..2 : QuerySettle(i)

\* a Table Binding constructed with any of the options, and no call made
OpsInit ==
  /\ TxInit
  /\ binding \in {Constructor(o) : o \in BindingOptions}
  /\ OpsIdle

SpecOps == OpsInit /\ [][OpsNext]_vars

\* transactions on a Table Binding constructed with no options
Init ==
  /\ TxInit
  /\ binding = Constructor([order |-> Undefined, asc |-> Undefined])
  /\ OpsIdle

TxNext ==
  \E p \in Procs :
    \/ InvokeTransactions(p)
    \/ InvokeTransactionSQLs(p)
    \/ AcquireSettle(p)
    \/ BeginSettle(p)
    \/ StmtSettle(p)
    \/ CommitSettle(p)
    \/ RollbackSettle(p)

Next == TxNext

Spec == Init /\ [][Next]_vars

(***************************************************************************)
(* Claims about the transaction wrapper                                    *)
(***************************************************************************)
\* the calls on connection c whose op is o
Calls(c, o) == SelectSeq(log[c], LAMBDA e : e.op = o)

\* invocation p has settled after acquiring a dedicated connection
Acquired(p) == pc[p] = "done" /\ conn[p] # NoConn

\* C1: in every run in which a dedicated connection has been acquired,
\* release has been called on it exactly once by the time the invocation
\* settles, on every exit path (BEGIN rejecting included).
C1_ReleasedExactlyOnce ==
  \A p \in Procs : Acquired(p) => Len(Calls(conn[p], "RELEASE")) = 1

\* C2: whenever the unit of work fails or COMMIT rejects, ROLLBACK is issued
\* on the dedicated connection and the invocation rejects with the original
\* error as re-raised by the hook, whatever the outcome of ROLLBACK.
C2_OriginalErrorPropagates ==
  \A p \in Procs :
    (pc[p] = "done" /\ err[p] # NoErr) =>
      /\ Len(Calls(conn[p], "ROLLBACK")) = 1
      /\ outcome[p] = Rejected(ErrorHandler(err[p]))

\* what an observer of the connection sees: each call's op and statement
\* position; the statement whose rejection is the failure of the unit of
\* work is not one of the n successful statements and is left out
Observed(l) ==
  LET seen == SelectSeq(l, LAMBDA e : ~(e.op = "STMT" /\ e.st = "fail"))
  IN  [i \in 1..Len(seen) |-> <<seen[i].op, seen[i].n>>]

\* BEGIN, stmt1..stmtn, then the closing call and RELEASE
Expected(n, closing) ==
  <<(<<"BEGIN", 0>>)>> \o [i \in 1..n |-> <<"STMT", i>>]
     \o <<(<<closing, 0>>), (<<"RELEASE", 0>>)>>

\* p's transaction was opened and p has settled
Opened(p) == Acquired(p) /\ log[conn[p]][1].st = "ok"
\* the unit of work of p failed: the callback threw or a statement rejected
UnitFailed(p) == Opened(p) /\ err[p] \in {"ErrFunc", "ErrStmt"}
\* the unit of work of p completed normally
UnitCompleted(p) == Opened(p) /\ err[p] \in {NoErr, "ErrCommit"}
\* the statements of p's unit of work that resolved
Successful(p) == IF err[p] = "ErrStmt" THEN issued[p] - 1 ELSE issued[p]

C6_InOrderOneAtATime ==
  \A p \in Procs :
    (kind[p] = "transactionSQLs" /\ conn[p] # NoConn) =>
      LET l == log[conn[p]]
          stmts == Calls(conn[p], "STMT")
      IN  /\ \A k \in 1..Len(stmts) :
               /\ stmts[k].n = sqls[p].list[k]
               /\ stmts[k].by = p
               /\ stmts[k].st = "fail" => k = Len(stmts)
          /\ Len(stmts) <= Len(sqls[p].list)
          /\ \A i \in 1..Len(l) : l[i].st = "pending" => i = Len(l)
          /\ \A c \in ConnIds \ {conn[p]} :
               \A i \in 1..Len(log[c]) : log[c][i].by # p

\* a list of two or more statements whose first statement rejected, after
\* the invocation settled
C6_Witness ==
  \E p \in Procs :
    /\ kind[p] = "transactionSQLs" /\ pc[p] = "done"
    /\ Len(sqls[p].list) >= 2
    /\ err[p] = "ErrStmt" /\ issued[p] = 1

\* p has made no call on any dedicated connection
Silent(p) == \A c \in ConnIds : \A i \in 1..Len(log[c]) : log[c][i].by # p

\* C7: transactions invoked with an empty name, or transactionSQLs with an
\* absent or empty list, fails before any connection is acquired: no
\* acquire, BEGIN, statement, COMMIT, ROLLBACK or release is issued.
C7_PreconditionBeforeAcquire ==
  \A p \in Procs :
    (\/ kind[p] = "transactions" /\ name[p] = ""
     \/ kind[p] = "transactionSQLs"
          /\ (~sqls[p].present \/ Len(sqls[p].list) = 0)) =>
      /\ outcome[p].st = "rejected"
      /\ acquires[p] = 0
      /\ conn[p] = NoConn
      /\ Silent(p)

\* an invocation with an empty name and one with an empty list, both settled
C7_Witness ==
  /\ \E p \in Procs : kind[p] = "transactions" /\ name[p] = "" /\ pc[p] = "done"
  /\ \E p \in Procs : kind[p] = "transactionSQLs" /\ sqls[p] = Given(<<>>)
                      /\ pc[p] = "done"

(***************************************************************************)
(* Claims about the operations of the execution layer                      *)
(***************************************************************************)
\* a call has been made and has built its statement or thrown
Called == opc # "idle"
\* the call has resolved
Returned == opc = "done" /\ reply.st = "resolved"
\* the call threw or rejected and handed nothing to the connection
RaisedUnsent == reply.st = "rejected" /\ sent = <<>>

\* C4: deleteByField and updateByField (and their Raw variants) called with
\* an empty Condition Map raise an error before any statement is sent: the
\* call is rejected and the connection has been handed nothing.
C4_EmptyConditionsRejected ==
  (/\ Called
   /\ call.op \in {"deleteByField", "deleteByFieldRaw", "updateByField",
                   "updateByFieldRaw"}
   /\ call.conditions = <<>>)
  => RaisedUnsent

\* the operations that take a payload
PayloadOps ==
  {"insert", "insertRaw", "batchInsert", "updateByField", "updateByFieldRaw",
   "updateByPrimary", "createOrUpdate"}
\* the payload object without its absent-valued fields
Stripped(object) == SelectSeq(object, LAMBDA e : e.v # Undefined)

\* C5: the payload operations remove every absent-valued field from the
\* payload before building, and a call whose payload is empty after that
\* removal raises an error and sends nothing to the connection (the
\* operations that check their Condition Map or primary first are taken
\* with one that passes the check).
C5_EmptyPayloadRejected ==
  (/\ Called
   /\ call.op \in PayloadOps
   /\ call.op \in {"updateByField", "updateByFieldRaw"} => call.conditions # <<>>
   /\ call.op = "updateByPrimary" => call.primary # Undefined)
  => /\ objs = [i \in 1..Len(call.objects) |-> Stripped(call.objects[i])]
     /\ (\A i \in 1..Len(objs) : objs[i] = <<>>) => RaisedUnsent

\* what count(conditions) and list(conditions, ...args) resolve to when
\* each is run on its own
CountAlone(conditions) == ThenCount(Execute(BuildCount(conditions).stmt))
ListAlone(this, conditions, args) ==
  Execute(BuildListRaw(this, conditions, args).stmt)

\* C8: once both of its queries have resolved, page(conditions, ...args)
\* resolves to {count, list} with the count that count(conditions) returns
\* on its own for an equal Condition Map and the list that
\* list(conditions, ...args) returns on its own.
C8_PageEqualsCountAndList ==
  (Returned /\ call.op = "page")
  => reply.v = ThenPage(ListAlone(binding, call.conditions, call.args),
                        CountAlone(call.conditions))

\* the operations that take paging arguments
PagedOps == {"list", "listRaw", "page", "search"}
\* what operation c builds when its paging arguments are args
BuildPaged(this, c, args) ==
  IF c.op = "search"
  THEN LET pg == SearchPaging(args)
       IN  BuildSearch(this, c.keyword, c.search, pg.limit, pg.offset,
                       pg.order, pg.asc)
  ELSE BuildListRaw(this, c.conditions, args)

\* C9: list, search and page called with one options record build the
\* statement they build when called with the same values positionally:
\* the statement handed to the connection is the positional one, and
\* nothing is handed over only if the positional call hands nothing over.
C9_BothConventionsSameStatement ==
  \A pg \in Pagings :
    (Called /\ call.op \in PagedOps /\ call.args = AsRecord(pg))
    => LET pos == BuildPaged(binding, call, AsPositional(pg))
       IN  IF sent = <<>> THEN pos.err # "" \/ Malformed(pos.stmt)
           ELSE sent[1].stmt = pos.stmt

\* C10: an affected-row operation resolves to the affectedRows value of the
\* execution result of its statement.
C10_ResolvesToAffectedRows ==
  (Returned /\ call.op \in AffectedOps)
  => reply.v = AffectedRows(flight[1].v)

\* C11: when the list query of page resolves to an empty row sequence or to
\* a falsy value, page resolves to a falsy value, not to {count, list: []}.
C11_EmptyListPageFalsy ==
  (/\ Returned
   /\ call.op = "page"
   /\ flight[1].v = Rows(<<>>) \/ Falsy(flight[1].v))
  => Falsy(reply.v)

\* the operations that compile a Condition Map
CondOps ==
  {"count", "countRaw", "list", "listRaw", "getOneByField", "getOneByFieldRaw",
   "getByField", "page", "deleteByField", "deleteByFieldRaw", "updateByField",
   "updateByFieldRaw"}

\* C12: in every operation that compiles a Condition Map an absent-valued
\* entry contributes no WHERE predicate (each statement has at most one
\* predicate per entry that is not absent), and a map that is empty, or
\* empty once the absent-valued entries are left out, yields a statement
\* without WHERE instead of an error.
C12_AbsentEntriesStripped ==
  (Called /\ call.op \in CondOps)
  => LET given == Stripped(call.conditions)
     IN  /\ \A i \in 1..Len(sent) : Len(sent[i].stmt.where) <= Len(given)
         /\ given = <<>> => sent # <<>>

\* key k contains the character ch, and k with every ch left out
Has(k, ch) == \E i \in 1..Len(k) : k[i] = ch
Without(k, ch) == SelectSeq(k, LAMBDA c : c # ch)
\* the one clause the rules give for key k and value v, first match first
RuleClause(k, v) ==
  CASE k[1] = "$" /\ v.t = "array" ->
         Clause(<<Chr(Head(v.v))>>, "", [i \in 1..Len(Tail(v.v)) |-> Num(Tail(v.v)[i])])
    [] k[1] = "$" /\ v.t # "array" -> Clause(Text(v.v), "", <<>>)
    [] k[1] # "$" /\ Has(k, "#") -> Clause(Without(k, "#"), "like ?", <<Wildcard(v)>>)
    [] k[1] # "$" /\ ~Has(k, "#") /\ Has(k, "$") -> Clause(Without(k, "$"), "", <<v>>)
    [] ~Has(k, "#") /\ ~Has(k, "$") /\ v.t = "array" -> Clause(k, "in ?", <<v>>)
    [] ~Has(k, "#") /\ ~Has(k, "$") /\ v.t # "array" -> Clause(k, "= ?", <<v>>)
\* the value of a key that starts with `$` is a sequence or a string
RawClauseGiven(e) == e.k[1] = "$" => e.v.t \in {"array", "string"}

\* C13: parseWhere compiles every key by exactly one rule, the first that
\* matches in the order leading `$`, `#`, embedded `$`, sequence value,
\* equality: the WHERE of count(conditions) is, entry by entry, the clause
\* of that rule (a key with `#` and a later `$` gets the LIKE clause).
C13_FirstMatchRule ==
  (/\ Called
   /\ call.op \in {"count", "countRaw"}
   /\ \A i \in 1..Len(call.conditions) : RawClauseGiven(call.conditions[i]))
  => /\ Len(sent) = 1
     /\ sent[1].stmt.where =
          [i \in 1..Len(call.conditions) |->
             RuleClause(call.conditions[i].k, call.conditions[i].v)]
\* count is called with a key that has both `#` and a later `$`
C13_Witness ==
  /\ Called
  /\ call.op = "count"
  /\ \E i \in 1..Len(call.conditions) :
       /\ Has(call.conditions[i].k, "#") /\ Has(call.conditions[i].k, "$")
       /\ sent[1].stmt.where[i].op = "like ?"

\* the operations that take a primary value
PrimaryOps ==
  {"getByPrimary", "getByPrimaryRaw", "deleteByPrimary", "deleteByPrimaryRaw",
   "updateByPrimary", "incrFields", "incrFieldsRaw"}

\* C14: getByPrimary, deleteByPrimary, updateByPrimary and incrFields (and
\* their Raw variants) called with an absent primary value raise an error
\* before any statement is sent to the connection.
C14_AbsentPrimaryRejected ==
  (Called /\ call.op \in PrimaryOps /\ call.primary = Undefined)
  => RaisedUnsent
\* deleteByPrimary has been called with an absent primary value
C14_Witness ==
  /\ opc = "done"
  /\ call.op = "deleteByPrimary"
  /\ call.primary = Undefined
  /\ reply.st = "rejected"

\* C15: every ...Raw operation executes its statement on the connection
\* passed as its first argument, never on the binding's default connection.
C15_RawUsesGivenConnection ==
  (Called /\ IsRaw(call.op))
  => \A i \in 1..Len(sent) : sent[i].conn = call.connect

(***************************************************************************)
(* Claims about concurrent transactions                                    *)
(***************************************************************************)
\* C16: in every interleaving of concurrent transaction invocations each
\* BEGIN, statement, COMMIT, ROLLBACK and release on a connection is issued
\* by the invocation that acquired that connection, no two invocations hold
\* the same connection, and nothing is issued on a connection after its
\* release.
C16_OwnConnectionOnly ==
  /\ \A p \in Procs, q \in Procs :
       (conn[p] # NoConn /\ conn[p] = conn[q]) => p = q
  /\ \A c \in ConnIds : \A i \in 1..Len(log[c]) :
       /\ conn[log[c][i].by] = c
       /\ log[c][i].op = "RELEASE" => i = Len(log[c])
\* two invocations are inside their transactions at the same time, each
\* with a statement issued on its connection
C16_Witness ==
  \E p \in Procs, q \in Procs :
    /\ p # q
    /\ pc[p] = "stmt" /\ pc[q] = "stmt"
    /\ Len(log[conn[p]]) >= 2 /\ Len(log[conn[q]]) >= 2

(***************************************************************************)
(* Claims about the statement builders                                     *)
(***************************************************************************)
\* C17: _updateByField and _deleteByField translate their Condition Map
\* with the Condition Compiler: the WHERE predicates and parameters of the
\* statement they build are the ones parseWhere produces for that map.
C17_WhereIsParseWhere ==
  (/\ Called
   /\ call.op \in {"deleteByField", "deleteByFieldRaw", "updateByField",
                   "updateByFieldRaw"}
   /\ sent # <<>>)
  => sent[1].stmt.where = ParseWhere(call.conditions)

\* C18: the statement builders leave their arguments unchanged; when _list,
\* _insert, _batchInsert, _updateByField or _createOrUpdate has run, the
\* caller's Condition Map and payload mappings hold exactly the keys and
\* values that were passed in.
FrameOps == {"list", "listRaw", "getOneByField", "getOneByFieldRaw", "getByField", "page", "insert", "insertRaw", "batchInsert", "updateByField", "updateByFieldRaw", "createOrUpdate"}

C18_ArgumentsUnchanged ==
  (Called /\ call.op \in FrameOps)
  => /\ conds = call.conditions
     /\ objs = call.objects

\* C19: the sort direction configured at construction is the one _list uses
\* when the caller passes no asc; a Table Binding constructed with a default
\* sort column and asc = false orders descending, one constructed with
\* asc = true or with asc unset orders ascending.
ConfiguredAsc == IF binding.options.asc = Bool(FALSE) THEN Bool(FALSE) ELSE Bool(TRUE)

C19_ConfiguredDirectionUsed ==
  (/\ Called /\ call.op \in {"list", "listRaw"} /\ call.args = <<>>
   /\ binding.options.order # Undefined /\ sent # <<>>)
  => /\ sent[1].stmt.order = binding.options.order
     /\ sent[1].stmt.asc = ConfiguredAsc

====
